---- MODULE Spec2Model ----
(***************************************************************************)
(* rio-cloudmask: the Fmask-style cloud / cloud-shadow pipeline of         *)
(* rio_cloudmask/equations.py and its command line rio_cloudmask/scripts/  *)
(* cli.py, as a state machine.                                             *)
(*                                                                         *)
(* Numbers.  numpy's floating point grids are modelled as grids of         *)
(* extended rationals: a finite value n/d in lowest terms, +Inf, -Inf or   *)
(* NaN, with IEEE rules for the special values (NaN is unordered, 0/0 and  *)
(* Inf-Inf and 0*Inf are NaN, x/0 is a signed infinity).  Rounding of the  *)
(* finite values is not modelled: arithmetic on them is exact.             *)
(*                                                                         *)
(* Grids.  An ndarray is a record [shape, v, err]: shape <<rows, cols>>,   *)
(* v the values indexed by <<row, col>> (1-based), err "" or the name of   *)
(* the exception numpy raised while producing it.  Elementwise operations  *)
(* follow numpy's broadcasting rule.                                       *)
(***************************************************************************)
EXTENDS Integers, Sequences, FiniteSets, TLC

----------------------------------------------------------------------------
(* Extended rationals (IEEE-754 special values, exact finite arithmetic)   *)

Abs(i) == IF i < 0 THEN -i ELSE i

Sgn(i) == IF i < 0 THEN -1 ELSE IF i > 0 THEN 1 ELSE 0

RECURSIVE GCD(_, _)
GCD(a, b) == IF b = 0 THEN a ELSE GCD(b, a % b)

NaN == [k |-> "nan", n |-> 0, d |-> 1]

Inf(s) == [k |-> "inf", n |-> s, d |-> 1]

\* the finite value n/d, d # 0, in lowest terms with a positive denominator
Q(n, d) ==
    LET g == GCD(Abs(n), Abs(d))
        s == IF d < 0 THEN -1 ELSE 1
    IN  [k |-> "fin", n |-> (s * n) \div g, d |-> (s * d) \div g]

\* a decimal literal with two places, e.g. C(3) = 0.03
C(h) == Q(h, 100)

\* an integer literal
Z(i) == Q(i, 1)

IsNaN(x) == x.k = "nan"

IsFin(x) == x.k = "fin"

Neg(x) == IF IsNaN(x) THEN NaN ELSE [x EXCEPT !.n = -x.n]

Add(x, y) ==
    IF IsNaN(x) \/ IsNaN(y) THEN NaN
    ELSE IF IsFin(x) /\ IsFin(y) THEN Q(x.n * y.d + y.n * x.d, x.d * y.d)
    ELSE IF IsFin(x) THEN y
    ELSE IF IsFin(y) THEN x
    ELSE IF x.n = y.n THEN x ELSE NaN

Sub(x, y) == Add(x, Neg(y))

Mul(x, y) ==
    IF IsNaN(x) \/ IsNaN(y) THEN NaN
    ELSE IF IsFin(x) /\ IsFin(y) THEN Q(x.n * y.n, x.d * y.d)
    ELSE IF Sgn(x.n) * Sgn(y.n) = 0 THEN NaN
    ELSE Inf(Sgn(x.n) * Sgn(y.n))

\* true division under np.seterr(divide='ignore', invalid='ignore')
Div(x, y) ==
    IF IsNaN(x) \/ IsNaN(y) THEN NaN
    ELSE IF IsFin(x) /\ IsFin(y)
         THEN IF y.n # 0 THEN Q(x.n * y.d, x.d * y.n)
              ELSE IF x.n = 0 THEN NaN ELSE Inf(Sgn(x.n))
    ELSE IF IsFin(x) THEN Z(0)
    ELSE IF IsFin(y) THEN Inf(x.n * (IF y.n < 0 THEN -1 ELSE 1))
    ELSE NaN

\* IEEE comparisons: any comparison with NaN is false
Lt(x, y) ==
    /\ ~IsNaN(x)
    /\ ~IsNaN(y)
    /\ IF IsFin(x) /\ IsFin(y) THEN x.n * y.d < y.n * x.d
       ELSE IF IsFin(x) THEN y.n > 0
       ELSE IF IsFin(y) THEN x.n < 0
       ELSE x.n < y.n

Gt(x, y) == Lt(y, x)

Le(x, y) == ~IsNaN(x) /\ ~IsNaN(y) /\ ~Lt(y, x)

EqNum(x, y) == ~IsNaN(x) /\ ~IsNaN(y) /\ x = y

\* np.absolute
Absolute(x) == IF IsNaN(x) THEN NaN ELSE [x EXCEPT !.n = Abs(x.n)]

\* np.minimum: NaN if either argument is NaN
Minimum(x, y) ==
    IF IsNaN(x) \/ IsNaN(y) THEN NaN ELSE IF Lt(y, x) THEN y ELSE x

\* np.fmax: the non-NaN argument if exactly one is NaN
Fmax(x, y) ==
    IF IsNaN(x) THEN y ELSE IF IsNaN(y) THEN x ELSE IF Lt(x, y) THEN y ELSE x

----------------------------------------------------------------------------
(* ndarrays: shape, values, broadcasting                                   *)

Idx(shape) == (1..shape[1]) \X (1..shape[2])

\* an array with the given shape and values; the values are computed once
Grid(shape, f) == [shape |-> shape, v |-> f @@ << >>, err |-> ""]

\* the outcome of an operation that raised
Raised(name) == [shape |-> <<0, 0>>, v |-> << >>, err |-> name]

\* a Python float / numpy 0-d value; it broadcasts against every shape
Scalar(x) == Grid(<<1, 1>>, [p \in Idx(<<1, 1>>) |-> x])

\* numpy's broadcasting rule: per axis the sizes are equal or one of them is 1
Compatible(s, t) ==
    \A i \in 1..2 : s[i] = t[i] \/ s[i] = 1 \/ t[i] = 1

BroadcastShape(s, t) ==
    <<IF s[1] = 1 THEN t[1] ELSE s[1], IF s[2] = 1 THEN t[2] ELSE s[2]>>

\* the element of a that lines up with index p of the broadcast result
At(a, p) ==
    a.v[<<IF a.shape[1] = 1 THEN 1 ELSE p[1],
          IF a.shape[2] = 1 THEN 1 ELSE p[2]>>]

\* a unary ufunc
Map1(F(_), a) ==
    IF a.err # "" THEN a
    ELSE Grid(a.shape, [p \in Idx(a.shape) |-> F(a.v[p])])

\* a binary ufunc: ValueError when the operands cannot be broadcast together
Map2(F(_, _), a, b) ==
    IF a.err # "" THEN a
    ELSE IF b.err # "" THEN b
    ELSE IF ~Compatible(a.shape, b.shape) THEN Raised("ValueError")
    ELSE LET s == BroadcastShape(a.shape, b.shape)
         IN  Grid(s, [p \in Idx(s) |-> F(At(a, p), At(b, p))])

AddG(a, b) == Map2(Add, a, b)
SubG(a, b) == Map2(Sub, a, b)
MulG(a, b) == Map2(Mul, a, b)
DivG(a, b) == Map2(Div, a, b)
LtG(a, b) == Map2(Lt, a, b)
GtG(a, b) == Map2(Gt, a, b)
AndG(a, b) == Map2(LAMBDA x, y : x /\ y, a, b)
OrG(a, b) == Map2(LAMBDA x, y : x \/ y, a, b)
NotG(a) == Map1(LAMBDA x : ~x, a)
AbsoluteG(a) == Map1(Absolute, a)

\* arr[mask] = value on a private copy of arr: the boolean index must have
\* arr's shape (IndexError otherwise)
SetWhere(arr, mask, value) ==
    IF arr.err # "" THEN arr
    ELSE IF mask.err # "" THEN mask
    ELSE IF mask.shape # arr.shape THEN Raised("IndexError")
    ELSE Grid(arr.shape,
              [p \in Idx(arr.shape) |-> IF mask.v[p] THEN value ELSE arr.v[p]])

\* np.nanpercentile(a, q) for q = qn/qd of 100%: linear interpolation between
\* the order statistics of the non-NaN entries; NaN when there are none
Nanpercentile(a, qn, qd) ==
    IF a.err # "" THEN a
    ELSE
    LET P == Idx(a.shape)
        D == {a.v[p] : p \in P} \ {NaN}
        n == Cardinality({p \in P : ~IsNaN(a.v[p])})
        CountLt(d) == Cardinality({p \in P : Lt(a.v[p], d)})
        CountLe(d) == Cardinality({p \in P : Le(a.v[p], d)})
        \* the i-th smallest entry, i counted from 0
        OrderStat(i) == CHOOSE d \in D : CountLt(d) <= i /\ i < CountLe(d)
        pos == (n - 1) * qn
        below == OrderStat(pos \div qd)
        above == OrderStat(IF pos % qd = 0 THEN pos \div qd ELSE (pos \div qd) + 1)
    IN  IF n = 0 THEN Scalar(NaN)
        ELSE Scalar(Add(below, Mul(Sub(above, below), Q(pos % qd, qd))))

----------------------------------------------------------------------------
(* rio_cloudmask/equations.py                                              *)

basic_test(ndvi, ndsi, swir2, tirs1) ==
    LET th_ndsi == Scalar(C(80))
        th_ndvi == Scalar(C(80))
        th_tirs1 == Scalar(Z(27))
        th_swir2 == Scalar(C(3))
    IN  AndG(AndG(AndG(GtG(swir2, th_swir2), LtG(tirs1, th_tirs1)),
                  LtG(ndsi, th_ndsi)),
             LtG(ndvi, th_ndvi))

whiteness_index(blue, green, red) ==
    LET mean_vis == DivG(AddG(AddG(blue, green), red), Scalar(Z(3)))
        blue_absdiff == AbsoluteG(DivG(SubG(blue, mean_vis), mean_vis))
        green_absdiff == AbsoluteG(DivG(SubG(green, mean_vis), mean_vis))
        red_absdiff == AbsoluteG(DivG(SubG(red, mean_vis), mean_vis))
    IN  AddG(AddG(blue_absdiff, green_absdiff), red_absdiff)

whiteness_test(blue, green, red) ==
    LET whiteness_threshold == Scalar(C(70))
    IN  LtG(whiteness_index(blue, green, red), whiteness_threshold)

hot_test(blue, red) ==
    LET thres == Scalar(C(8))
    IN  GtG(SubG(SubG(blue, MulG(Scalar(C(50)), red)), thres), Scalar(Z(0)))

nirswir_test(nir, swir1) ==
    LET th_ratio == Scalar(C(75))
    IN  GtG(DivG(nir, swir1), th_ratio)

cirrus_test(cirrus) ==
    LET th_cirrus == Scalar(C(1))
    IN  GtG(cirrus, th_cirrus)

water_test(ndvi, nir) ==
    LET th_ndvi_A == Scalar(C(1))
        th_nir_A == Scalar(C(11))
        th_ndvi_B == Scalar(C(10))
        th_nir_B == Scalar(C(5))
    IN  OrG(AndG(LtG(ndvi, th_ndvi_A), LtG(nir, th_nir_A)),
            AndG(LtG(ndvi, th_ndvi_B), LtG(nir, th_nir_B)))

\* equation 6 with the cirrus test inside the conjunction
potential_cloud_pixels_inner_or(ndvi, ndsi, blue, green, red, nir, swir1, swir2, cirrus, tirs1) ==
    LET eq1 == basic_test(ndvi, ndsi, swir2, tirs1)
        eq2 == whiteness_test(blue, green, red)
        eq3 == hot_test(blue, red)
        eq4 == nirswir_test(nir, swir1)
        cir == cirrus_test(cirrus)
    IN  AndG(AndG(AndG(eq1, eq2), eq3), OrG(eq4, cir))

potential_cloud_pixels(ndvi, ndsi, blue, green, red, nir, swir1, swir2, cirrus, tirs1) ==
    LET eq1 == basic_test(ndvi, ndsi, swir2, tirs1)
        eq2 == whiteness_test(blue, green, red)
        eq3 == hot_test(blue, red)
        eq4 == nirswir_test(nir, swir1)
        cir == cirrus_test(cirrus)
    IN  OrG(AndG(AndG(AndG(eq1, eq2), eq3), eq4), cir)

\* A function that masks a band returns [ret, arg]: ret is its return value
\* and arg the caller's array as the call leaves it.  The masking is done on
\* arr.copy(), so the caller's array is left as it was.

\* temp_water masking tirs1 itself instead of a copy
temp_water_in_place(is_water, swir2, tirs1) ==
    LET th_swir2 == Scalar(C(3))
        clearsky_water == AndG(is_water, LtG(swir2, th_swir2))
        clear_water_temp == SetWhere(tirs1, NotG(clearsky_water), NaN)
    IN  [ret |-> Nanpercentile(clear_water_temp, 33, 40),
         arg |-> clear_water_temp]

temp_water(is_water, swir2, tirs1) ==
    LET th_swir2 == Scalar(C(3))
        clearsky_water == AndG(is_water, LtG(swir2, th_swir2))
        clear_water_temp == SetWhere(tirs1, NotG(clearsky_water), NaN)
    IN  [ret |-> Nanpercentile(clear_water_temp, 33, 40), arg |-> tirs1]

water_temp_prob(water_temp, tirs) ==
    LET temp_const == Scalar(Z(4))
    IN  DivG(SubG(water_temp, tirs), temp_const)

\* bp is the new array np.minimum(thresh, nir) / thresh; the clipping
\* bp[bp > 1] = 1; bp[bp < 0] = 0 assigns into bp, never into nir
brightness_prob(nir, clip) ==
    LET thresh == Scalar(C(11))
        bp == DivG(Map2(Minimum, thresh, nir), thresh)
        hi == SetWhere(bp, GtG(bp, Scalar(Z(1))), Z(1))
        lo == SetWhere(hi, LtG(hi, Scalar(Z(0))), Z(0))
    IN  [ret |-> IF clip THEN lo ELSE bp, arg |-> nir]

\* temp_land taking the percentiles of the whole band
temp_land_unmasked(pcps, water, tirs1) ==
    [ret |-> <<Nanpercentile(tirs1, 7, 40), Nanpercentile(tirs1, 33, 40)>>,
     arg |-> tirs1]

temp_land(pcps, water, tirs1) ==
    LET clearsky_land == NotG(OrG(pcps, water))
        clear_land_temp == SetWhere(tirs1, NotG(clearsky_land), NaN)
    IN  [ret |-> <<Nanpercentile(clear_land_temp, 7, 40),
                   Nanpercentile(clear_land_temp, 33, 40)>>,
         arg |-> tirs1]

land_temp_prob(tirs1, tlow, thigh) ==
    LET temp_diff == Scalar(Z(4))
    IN  DivG(SubG(AddG(thigh, temp_diff), tirs1),
             SubG(AddG(thigh, Scalar(Z(4))), SubG(tlow, Scalar(Z(4)))))

variability_prob(ndvi, ndsi, whiteness) ==
    LET ndi_max == Map2(Fmax, AbsoluteG(ndvi), AbsoluteG(ndsi))
        f_max == SubG(Scalar(Z(1)), Map2(Fmax, ndi_max, whiteness))
    IN  f_max

land_threshold(land_cloud_prob, pcps, water) ==
    LET clearsky_land == NotG(OrG(pcps, water))
        cloud_prob == SetWhere(land_cloud_prob, NotG(clearsky_land), NaN)
        th_const == Scalar(C(20))
    IN  [ret |-> AddG(Nanpercentile(cloud_prob, 33, 40), th_const),
         arg |-> land_cloud_prob]

\* equation 18 with the cold test applied to potential cloud pixels only
potential_cloud_layer_pcp_only(pcp, water, tirs1, tlow, land_cloud_prob, lthreshold, water_cloud_prob, water_threshold) ==
    LET part1 == AndG(AndG(pcp, water), GtG(water_cloud_prob, water_threshold))
        part2 == AndG(AndG(pcp, NotG(water)), GtG(land_cloud_prob, lthreshold))
        temptest == LtG(tirs1, SubG(tlow, Scalar(Z(35))))
    IN  OrG(OrG(part1, part2), AndG(pcp, temptest))

\* equation 18 with the thresholds tested as "not below or equal"
potential_cloud_layer_negated(pcp, water, tirs1, tlow, land_cloud_prob, lthreshold, water_cloud_prob, water_threshold) ==
    LET part1 == AndG(AndG(pcp, water),
                      NotG(Map2(Le, water_cloud_prob, water_threshold)))
        part2 == AndG(AndG(pcp, NotG(water)),
                      NotG(Map2(Le, land_cloud_prob, lthreshold)))
        temptest == LtG(tirs1, SubG(tlow, Scalar(Z(35))))
    IN  OrG(OrG(part1, part2), temptest)

\* equation 18 with the cold test 35 degrees above tlow instead of below
potential_cloud_layer_warm(pcp, water, tirs1, tlow, land_cloud_prob, lthreshold, water_cloud_prob, water_threshold) ==
    LET part1 == AndG(AndG(pcp, water), GtG(water_cloud_prob, water_threshold))
        part2 == AndG(AndG(pcp, NotG(water)), GtG(land_cloud_prob, lthreshold))
        temptest == LtG(tirs1, AddG(tlow, Scalar(Z(35))))
    IN  OrG(OrG(part1, part2), temptest)

potential_cloud_layer(pcp, water, tirs1, tlow, land_cloud_prob, lthreshold, water_cloud_prob, water_threshold) ==
    LET part1 == AndG(AndG(pcp, water), GtG(water_cloud_prob, water_threshold))
        part2 == AndG(AndG(pcp, NotG(water)), GtG(land_cloud_prob, lthreshold))
        temptest == LtG(tirs1, SubG(tlow, Scalar(Z(35))))
    IN  OrG(OrG(part1, part2), temptest)

calc_ndsi(green, swir1) == DivG(SubG(green, swir1), AddG(green, swir1))

calc_ndvi(red, nir) == DivG(SubG(nir, red), AddG(nir, red))

potential_cloud_shadow_layer(nir, swir1, water) ==
    AndG(AndG(LtG(nir, Scalar(C(10))), LtG(swir1, Scalar(C(10)))), NotG(water))

----------------------------------------------------------------------------
(* scipy.ndimage as cloudmask calls it                                     *)

\* Python's None (and every other falsy filter argument)
None == << >>

\* mode='reflect' (d c b a | a b c d | d c b a): the index inside 1..len
\* that position i of the extended line reads
Reflect(i, len) ==
    LET m == (i - 1) % (2 * len)
    IN  IF m < len THEN m + 1 ELSE 2 * len - m

\* the positions a window of the given size centred at i covers along an
\* axis of length len; an axis whose size is not above 1 is left unfiltered
Window(i, size, len) ==
    IF size > 1
    THEN {Reflect(i + o, len) : o \in (-(size \div 2))..(size - (size \div 2) - 1)}
    ELSE {i}

Footprint(p, size, shape) ==
    Window(p[1], size[1], shape[1]) \X Window(p[2], size[2], shape[2])

\* scipy.ndimage.filters.minimum_filter(input, size=size) on a boolean array
minimum_filter(input, size) ==
    IF input.err # "" THEN input
    ELSE Grid(input.shape,
              [p \in Idx(input.shape) |->
                  \A q \in Footprint(p, size, input.shape) : input.v[q]])

\* a maximum filter whose window starts one element after its centre
maximum_filter_off_centre(input, size) ==
    IF input.err # "" THEN input
    ELSE LET Ahead(i, n, len) ==
                 {Reflect(i + o, len) : o \in 1..(IF n > 1 THEN n ELSE 1)}
         IN  Grid(input.shape,
                  [p \in Idx(input.shape) |->
                      \E q \in Ahead(p[1], size[1], input.shape[1])
                               \X Ahead(p[2], size[2], input.shape[2]) :
                          input.v[q]])

\* scipy.ndimage.filters.maximum_filter(input, size=size) on a boolean array
maximum_filter(input, size) ==
    IF input.err # "" THEN input
    ELSE Grid(input.shape,
              [p \in Idx(input.shape) |->
                  \E q \in Footprint(p, size, input.shape) : input.v[q]])

\* scipy.ndimage.morphology.distance_transform_edt(input), squared: for every
\* true element the squared Euclidean distance to the nearest false element,
\* 0 for a false element.  With no false element at all the feature array
\* scipy measures from keeps -1 on the first axis and 0 on the second: the
\* position above the first row, in the first column.
distance_transform_edt_sq(input) ==
    IF input.err # "" THEN input
    ELSE LET P == Idx(input.shape)
             Z0 == {q \in P : ~input.v[q]}
             Sq(p, q) == (p[1] - q[1]) * (p[1] - q[1]) + (p[2] - q[2]) * (p[2] - q[2])
             Near(p) == CHOOSE q \in Z0 : \A r \in Z0 : Sq(p, q) <= Sq(p, r)
         IN  Grid(input.shape,
                  [p \in P |-> IF Z0 = {} THEN Sq(p, <<0, 1>>)
                               ELSE Sq(p, Near(p))])

pixel_radius == 100

\* the first exception raised by a sequence of statements, "" if none raised
RECURSIVE FirstError(_)
FirstError(steps) ==
    IF steps = << >> THEN ""
    ELSE IF Head(steps).err # "" THEN Head(steps).err
    ELSE FirstError(Tail(steps))

\* the statements of cloudmask after the two raw layers are computed: the
\* "if min_filter:" block and the "if max_filter:" block
cloudmask_filters(pcloud0, pshadow0, min_filter, max_filter) ==
    LET pcloud1 == IF min_filter # None
                   THEN minimum_filter(pcloud0, min_filter) ELSE pcloud0
        dist == distance_transform_edt_sq(NotG(pcloud1))
        gated == AndG(Map1(LAMBDA d2 : d2 < pixel_radius * pixel_radius, dist),
                      pshadow0)
        pshadow1 == IF min_filter # None
                    THEN minimum_filter(gated, min_filter) ELSE pshadow0
    IN  [pcloud |-> IF max_filter # None
                    THEN maximum_filter(pcloud1, max_filter) ELSE pcloud1,
         pshadow |-> IF max_filter # None
                     THEN maximum_filter(pshadow1, max_filter) ELSE pshadow1]

\* cloudmask(..., result): the call returns result.  Every statement binds
\* its local once, in the order of the code.
cloudmask(blue, green, red, nir, swir1, swir2, cirrus, tirs1, min_filter, max_filter, result) ==
    \E ndvi \in {calc_ndvi(red, nir)} :
    \E ndsi \in {calc_ndsi(green, swir1)} :
    \E whiteness \in {whiteness_index(blue, green, red)} :
    \E water \in {water_test(ndvi, nir)} :
    \E pcps \in {potential_cloud_pixels(ndvi, ndsi, blue, green, red, nir,
                                        swir1, swir2, cirrus, tirs1)} :
    \E cirrus_prob \in {DivG(cirrus, Scalar(C(4)))} :
    \* clouds over water
    \E tw \in {temp_water(water, swir2, tirs1)} :
    \E wtp \in {water_temp_prob(tw.ret, tw.arg)} :
    \E bp \in {brightness_prob(nir, TRUE)} :
    \E water_cloud_prob \in {AddG(MulG(wtp, bp.ret), cirrus_prob)} :
    \E wthreshold \in {Scalar(C(50))} :
    \* clouds over land
    \E tl \in {temp_land(pcps, water, tw.arg)} :
    \E tlow \in {tl.ret[1]} :
    \E thigh \in {tl.ret[2]} :
    \E ltp \in {land_temp_prob(tl.arg, tlow, thigh)} :
    \E vp \in {variability_prob(ndvi, ndsi, whiteness)} :
    \E land_cloud_prob \in {AddG(MulG(ltp, vp), cirrus_prob)} :
    \E lt \in {land_threshold(land_cloud_prob, pcps, water)} :
    \E pcloud \in {potential_cloud_layer(pcps, water, tl.arg, tlow, lt.arg,
                                         lt.ret, water_cloud_prob, wthreshold)} :
    \E pshadow \in {potential_cloud_shadow_layer(bp.arg, swir1, water)} :
    \E f \in {cloudmask_filters(pcloud, pshadow, min_filter, max_filter)} :
    \E exc \in {FirstError(<<ndvi, ndsi, whiteness, water, pcps, cirrus_prob,
                             tw.ret, wtp, bp.ret, water_cloud_prob, tlow, ltp,
                             vp, land_cloud_prob, lt.ret, pcloud, pshadow,
                             f.pcloud, f.pshadow>>)} :
        result = [exc |-> exc,
                  pcloud |-> IF exc = "" THEN f.pcloud ELSE Raised(exc),
                  pshadow |-> IF exc = "" THEN f.pshadow ELSE Raised(exc),
                  \* the locals of the call, for the properties that speak
                  \* of them
                  ndvi |-> ndvi, ndsi |-> ndsi, whiteness |-> whiteness,
                  vp |-> vp,
                  water |-> water, pcps |-> pcps,
                  tlow |-> tlow, thigh |-> thigh, lthreshold |-> lt.ret,
                  water_cloud_prob |-> water_cloud_prob,
                  land_cloud_prob |-> lt.arg,
                  raw_pcloud |-> pcloud, raw_pshadow |-> pshadow,
                  \* the caller's arrays as the call leaves them
                  nir |-> bp.arg, tirs1 |-> tl.arg]

\* the mask of examples/example.py, which leaves the thermal band out
gdal_nodata_mask_no_thermal(pcl, pcsl, tirs_arr) ==
    Map1(LAMBDA b : ((IF b THEN 1 ELSE 0) * 255) % 256, NotG(OrG(pcl, pcsl)))

gdal_nodata_mask(pcl, pcsl, tirs_arr) ==
    LET tirs_mask == OrG(Map1(IsNaN, tirs_arr),
                         Map1(LAMBDA x : EqNum(x, Z(0)), tirs_arr))
    IN  Map1(LAMBDA b : ((IF b THEN 1 ELSE 0) * 255) % 256,
             NotG(OrG(OrG(pcl, pcsl), tirs_mask)))

----------------------------------------------------------------------------
(* Input scenes                                                            *)

BandNames ==
    {"blue", "green", "red", "nir", "swir1", "swir2", "cirrus", "tirs1"}

\* one pixel: seven reflectances in hundredths, the thermal value as given
Pixel(b, g, r, n, s1, s2, ci, t) ==
    [blue |-> C(b), green |-> C(g), red |-> C(r), nir |-> C(n),
     swir1 |-> C(s1), swir2 |-> C(s2), cirrus |-> C(ci), tirs1 |-> t]

\* the kinds of pixel the scenes are made of
Palette ==
    [land        |-> Pixel(20, 20, 20, 30, 15, 1, 0, Z(30)),
     cloud       |-> Pixel(50, 50, 50, 50, 40, 30, 0, Z(-10)),
     water       |-> Pixel(5, 5, 5, 4, 2, 1, 0, Z(20)),
     shadow      |-> Pixel(4, 4, 4, 8, 5, 1, 0, Z(30)),
     cirruswater |-> Pixel(5, 5, 5, 4, 2, 1, 2, Z(10)),
     cirrusland  |-> Pixel(20, 20, 20, 30, 15, 1, 2, Z(30)),
     cold        |-> Pixel(20, 20, 20, 30, 15, 1, 0, Z(-60)),
     nodata      |-> Pixel(0, 0, 0, 0, 0, 0, 0, Z(0)),
     nanland     |-> Pixel(20, 20, 20, 30, 15, 1, 0, NaN),
     nancirrus   |-> Pixel(5, 5, 5, 4, 2, 1, 2, NaN),
     nanndsi     |-> Pixel(20, 0, 20, 30, 0, 1, 2, Z(50))]

Kinds == DOMAIN Palette

\* the eight bands of a scene whose pixel p is of kind kind[p]
Bands(shape, kind) ==
    [b \in BandNames |->
        Grid(shape, [p \in Idx(shape) |-> Palette[kind[p]][b]])]

Rows == 2
Cols == 3

\* a background kind with a rectangle of another kind in the top left corner
Patch(shape, bg, fg, h, w) ==
    Bands(shape, [p \in Idx(shape) |->
                     IF p[1] <= h /\ p[2] <= w THEN fg ELSE bg])

Backgrounds == {"land", "water", "shadow", "nanland"}

\* eight bands of one shape
SmallScenes ==
    {Patch(<<Rows, Cols>>, bg, fg, h, w) :
        bg \in Backgrounds, fg \in Kinds, h \in {1, Rows}, w \in 1..Cols}

WideCols == 102

\* one long row of clear land with a cloud at its left end and one dark
\* pixel near its right end
WideScenes ==
    {Bands(<<1, WideCols>>,
           [p \in Idx(<<1, WideCols>>) |->
               IF p[2] <= w THEN "cloud"
               ELSE IF p[2] = at THEN "shadow" ELSE "land"]) :
        w \in 1..2, at \in (WideCols - 2)..WideCols}

\* band arr cut down to its first h rows and first w columns
Cut(arr, h, w) == Grid(<<h, w>>, [p \in Idx(<<h, w>>) |-> arr.v[p]])

\* scenes with one band of another shape than the other seven: its first row
\* alone (1 x Cols against Rows x Cols) or with its last column missing
MismatchedScenes ==
    {[Patch(<<Rows, Cols>>, "land", fg, 1, 1) EXCEPT
          ![b] = IF row THEN Cut(@, 1, Cols) ELSE Cut(@, Rows, Cols - 1)] :
        fg \in {"cloud", "shadow"}, b \in BandNames, row \in BOOLEAN}

\* one-row scenes over the three thermal cases: a value, 0 and NaN
ThermalScenes ==
    {Bands(<<1, Cols>>, kind) :
        kind \in [Idx(<<1, Cols>>) -> {"land", "nodata", "nanland"}]}

UniRows == 5
UniCols == 5

\* scenes of clear land alone, of every size up to UniRows x UniCols
UniformScenes ==
    {Patch(<<h, w>>, "land", "land", h, w) : h \in 1..UniRows, w \in 1..UniCols}

SameShape(bs) == \A b \in BandNames : bs[b].shape = bs.red.shape

MaxFilter == 3
MaxCalls == 2

\* the filter arguments a caller of the library passes
FilterArgs == {None} \cup {<<n, n>> : n \in 1..MaxFilter}

\* the filter arguments of a call that passes none
DefaultMinFilter == <<3, 3>>
DefaultMaxFilter == <<21, 21>>

\* the integers given to --min-filter and --max-filter
FilterOptions == (-1)..MaxFilter

----------------------------------------------------------------------------
(* The program                                                             *)

VARIABLES
    bands,        \* the caller's eight arrays (the CLI's: the eight files)
    min_filter,   \* the filter arguments of the caller's calls of cloudmask
    max_filter,
    ncalls,       \* calls of cloudmask made so far
    out,          \* what the last call of cloudmask returned
    prev,         \* what the call before it returned
    enc,          \* the last call of gdal_nodata_mask: arguments and result
    cli           \* the command line run

vars == <<bands, min_filter, max_filter, ncalls, out, prev, enc, cli>>

Unset == Raised("unset")

NoCall == [exc |-> "unset", pcloud |-> Unset, pshadow |-> Unset]

NoEnc == [pcl |-> Unset, pcsl |-> Unset, gmask |-> Unset]

NotRun == [pc |-> "start"]

Start(scenes) ==
    /\ bands \in scenes
    /\ min_filter \in FilterArgs
    /\ max_filter \in FilterArgs
    /\ ncalls = 0
    /\ out = NoCall
    /\ prev = NoCall
    /\ enc = NoEnc
    /\ cli = NotRun

\* pcloud, pshadow = cloudmask(blue, ..., tirs1, min_filter, max_filter),
\* as tests/test_equations.py and examples/example.py call it
Cloudmask ==
    /\ ncalls < MaxCalls
    /\ cloudmask(bands.blue, bands.green, bands.red, bands.nir, bands.swir1,
                 bands.swir2, bands.cirrus, bands.tirs1,
                 min_filter, max_filter, out')
    /\ bands' = [bands EXCEPT !.nir = out'.nir, !.tirs1 = out'.tirs1]
    /\ prev' = out
    /\ ncalls' = ncalls + 1
    /\ UNCHANGED <<min_filter, max_filter, enc, cli>>

\* gmask = gdal_nodata_mask(pcl, pcsl, tirs1) on two boolean layers
GdalNodataMask(pcl, pcsl) ==
    /\ enc = NoEnc
    /\ enc' = [pcl |-> pcl, pcsl |-> pcsl,
               gmask |-> gdal_nodata_mask(pcl, pcsl, bands.tirs1)]
    /\ UNCHANGED <<bands, min_filter, max_filter, ncalls, out, prev, cli>>

BoolGrids(shape) == {Grid(shape, f) : f \in [Idx(shape) -> BOOLEAN]}

\* what the run leaves behind: its options, its exit code and the mask in
\* the output file (Unset when none was written)
Exit(code, min_filter_opt, max_filter_opt, written) ==
    [pc |-> "exit", exit_code |-> code, min_filter_opt |-> min_filter_opt,
     max_filter_opt |-> max_filter_opt, written |-> written]

\* rio cloudmask BLUE ... TIRS1 --min-filter m --max-filter x -o OUTPUT
Main(min_filter_opt, max_filter_opt) ==
    /\ cli.pc = "start"
    \* process filter opts
    /\ min_filter' = IF min_filter_opt = 0 THEN None
                     ELSE <<min_filter_opt, min_filter_opt>>
    /\ max_filter' = IF max_filter_opt = 0 THEN None
                     ELSE <<max_filter_opt, max_filter_opt>>
    \* arrs = [rasterio.open(path).read(1) for path in ...];
    \* pcl, pcsl = cloudmask(*arrs, min_filter=min_filter, max_filter=max_filter)
    /\ cloudmask(bands.blue, bands.green, bands.red, bands.nir, bands.swir1,
                 bands.swir2, bands.cirrus, bands.tirs1,
                 min_filter', max_filter', out')
    /\ prev' = out
    /\ ncalls' = ncalls + 1
    /\ bands' = [bands EXCEPT !.nir = out'.nir, !.tirs1 = out'.tirs1]
    /\ IF out'.exc # ""
       THEN \* the exception leaves main: nothing is written
            /\ enc' = enc
            /\ cli' = Exit(1, min_filter_opt, max_filter_opt, Unset)
       ELSE \* gmask = gdal_nodata_mask(pcl, pcsl, tirs_arr)
            /\ enc' = [pcl |-> out'.pcloud, pcsl |-> out'.pshadow,
                       gmask |-> gdal_nodata_mask(out'.pcloud, out'.pshadow,
                                                  bands'.tirs1)]
            \* dst.write(gmask, 1) into a file with the profile read from RED
            /\ \/ cli' = Exit(0, min_filter_opt, max_filter_opt, enc'.gmask)
               \/ \* the write may refuse an array that does not have the
                  \* dimensions of that profile
                  /\ enc'.gmask.shape # bands.red.shape
                  /\ cli' = Exit(1, min_filter_opt, max_filter_opt, Unset)

\* a caller of the library holding eight arrays of one shape
Init == Start(SmallScenes)

Next == Cloudmask

Spec == Init /\ [][Next]_vars

\* the same caller on long rows
InitWide == Start(WideScenes)

SpecWide == InitWide /\ [][Next]_vars

\* a caller of the encoder
InitEnc == Start(ThermalScenes) /\ min_filter = None /\ max_filter = None

NextEnc ==
    \E pcl \in BoolGrids(<<1, Cols>>), pcsl \in BoolGrids(<<1, Cols>>) :
        GdalNodataMask(pcl, pcsl)

SpecEnc == InitEnc /\ [][NextEnc]_vars

\* the command line, on eight files of one shape or not
InitCli ==
    /\ Start(SmallScenes \cup MismatchedScenes)
    /\ min_filter = None
    /\ max_filter = None

NextCli ==
    \E m \in FilterOptions, x \in FilterOptions : Main(m, x)

SpecCli == InitCli /\ [][NextCli]_vars

\* gmask = gdal_nodata_mask(pcloud, pshadow, tirs1) on what cloudmask returned
Encode ==
    /\ ncalls >= 1
    /\ out.exc = ""
    /\ GdalNodataMask(out.pcloud, out.pshadow)

\* a caller that leaves the filter arguments out and encodes the result
InitUniform ==
    /\ bands \in UniformScenes
    /\ min_filter = DefaultMinFilter
    /\ max_filter = DefaultMaxFilter
    /\ ncalls = 0
    /\ out = NoCall
    /\ prev = NoCall
    /\ enc = NoEnc
    /\ cli = NotRun

NextUniform == Cloudmask \/ Encode

SpecUniform == InitUniform /\ [][NextUniform]_vars

----------------------------------------------------------------------------
(* Properties                                                              *)

\* the pixels of the scene
Pix == Idx(bands.red.shape)

\* the value of a scalar
Value(x) == x.v[<<1, 1>>]

\* cloudmask has been called and has returned
Returned == ncalls >= 1 /\ out.exc = ""

\* every true pixel of a is a true pixel of b
Within(a, b) == \A p \in Idx(a.shape) : a.v[p] => b.v[p]

\* what the call would have returned with other filter arguments: the two
\* raw layers are computed before the filter arguments are read
With(minf, maxf) == cloudmask_filters(out.raw_pcloud, out.raw_pshadow, minf, maxf)

\* the squared distance between two pixels
DistSq(p, q) == (p[1] - q[1]) * (p[1] - q[1]) + (p[2] - q[2]) * (p[2] - q[2])

\* C1: gdal_nodata_mask returns only 0 and 255, and 255 exactly at the pixels
\* that are not cloud, not shadow and whose thermal value is neither NaN nor 0
C1_EncoderValues ==
    enc # NoEnc =>
        /\ enc.gmask.err = ""
        /\ \A p \in Pix :
            /\ enc.gmask.v[p] \in {0, 255}
            /\ enc.gmask.v[p] = 255 <=>
                   /\ ~enc.pcl.v[p]
                   /\ ~enc.pcsl.v[p]
                   /\ ~IsNaN(bands.tirs1.v[p])
                   /\ bands.tirs1.v[p] # Z(0)

\* a mask with a clear pixel, a pixel that is 0 for its NaN thermal value
\* alone and a pixel that is 0 for its thermal 0 alone
C1_Witness ==
    /\ enc # NoEnc
    /\ \E p \in Pix : enc.gmask.v[p] = 255
    /\ \E p \in Pix : /\ IsNaN(bands.tirs1.v[p])
                      /\ ~enc.pcl.v[p] /\ ~enc.pcsl.v[p]
                      /\ enc.gmask.v[p] = 0
    /\ \E p \in Pix : /\ bands.tirs1.v[p] = Z(0)
                      /\ ~enc.pcl.v[p] /\ ~enc.pcsl.v[p]
                      /\ enc.gmask.v[p] = 0

\* where the four spectral tests of equation 6 all hold
FourTests ==
    LET ndvi == calc_ndvi(bands.red, bands.nir)
        ndsi == calc_ndsi(bands.green, bands.swir1)
    IN  AndG(AndG(AndG(basic_test(ndvi, ndsi, bands.swir2, bands.tirs1),
                       whiteness_test(bands.blue, bands.green, bands.red)),
                  hot_test(bands.blue, bands.red)),
             nirswir_test(bands.nir, bands.swir1))

\* C2: a pixel is a potential cloud pixel exactly when the four tests all hold
\* or cirrus > 0.01: cirrus > 0.01 alone makes it one, and with cirrus <= 0.01
\* one failing test makes it none
C2_PcpCombination ==
    Returned =>
        LET four == FourTests
        IN  \A p \in Pix :
                /\ out.pcps.v[p] <=> (four.v[p] \/ Gt(bands.cirrus.v[p], C(1)))
                /\ Gt(bands.cirrus.v[p], C(1)) => out.pcps.v[p]
                /\ (Le(bands.cirrus.v[p], C(1)) /\ ~four.v[p]) => ~out.pcps.v[p]

\* a scene with a pixel that is a PCP through cirrus alone and a pixel with
\* cirrus <= 0.01 and a failing test that is none
C2_Witness ==
    /\ Returned
    /\ LET four == FourTests
       IN  /\ \E p \in Pix : /\ Gt(bands.cirrus.v[p], C(1)) /\ ~four.v[p]
                             /\ out.pcps.v[p]
           /\ \E p \in Pix : /\ Le(bands.cirrus.v[p], C(1)) /\ ~four.v[p]
                             /\ ~out.pcps.v[p]

\* the three branches of equation 18 at pixel p, from the locals of the call
WaterBranch(p) ==
    /\ out.pcps.v[p]
    /\ out.water.v[p]
    /\ Gt(out.water_cloud_prob.v[p], C(50))

LandBranch(p) ==
    /\ out.pcps.v[p]
    /\ ~out.water.v[p]
    /\ Gt(out.land_cloud_prob.v[p], Value(out.lthreshold))

ColdOverride(p) == Lt(bands.tirs1.v[p], Sub(Value(out.tlow), Z(35)))

\* C3: the cloud layer is true exactly at the pixels of the water branch, the
\* land branch or the cold override tirs1 < tlow - 35; the override flags a
\* pixel whether or not it is a PCP or water, and every flagged pixel is a PCP
\* or satisfies the override
C3_CloudLayer ==
    Returned =>
        \A p \in Pix :
            /\ out.raw_pcloud.v[p] <=>
                   (WaterBranch(p) \/ LandBranch(p) \/ ColdOverride(p))
            /\ ColdOverride(p) => out.raw_pcloud.v[p]
            /\ out.raw_pcloud.v[p] => (out.pcps.v[p] \/ ColdOverride(p))

\* the override flags a pixel that is neither a PCP nor water
C3_Witness ==
    /\ Returned
    /\ \E p \in Pix : ColdOverride(p) /\ ~out.pcps.v[p] /\ out.raw_pcloud.v[p]

\* C4: with both filters disabled every returned shadow pixel lies at a
\* distance below 100 from some returned cloud pixel (the proximity gate is
\* applied without the erosion stage)
C4_GateWithoutErosion ==
    (Returned /\ min_filter = None /\ max_filter = None) =>
        \A p \in Pix :
            out.pshadow.v[p] =>
                \E q \in Pix : /\ out.pcloud.v[q]
                               /\ DistSq(p, q) < pixel_radius * pixel_radius

\* C5: for the same bands, enabling max_filter loses no true pixel of pcloud
\* or pshadow (min_filter held fixed) and enabling min_filter adds none
\* (max_filter held fixed)
C5_FiltersMonotone ==
    Returned =>
        LET no_max == With(min_filter, None)
            no_min == With(None, max_filter)
        IN  /\ max_filter # None =>
                   /\ Within(no_max.pcloud, out.pcloud)
                   /\ Within(no_max.pshadow, out.pshadow)
            /\ min_filter # None =>
                   /\ Within(out.pcloud, no_min.pcloud)
                   /\ Within(out.pshadow, no_min.pshadow)

\* both filters enabled: the dilation has added a cloud pixel and the erosion
\* has removed one
C5_Witness ==
    /\ Returned
    /\ min_filter # None
    /\ max_filter # None
    /\ ~Within(out.pcloud, With(min_filter, None).pcloud)
    /\ ~Within(With(None, max_filter).pcloud, out.pcloud)

\* C6: eight bands that do not all have the same dimensions end the run with
\* an error and no mask is returned or written (stated for the runs whose
\* filter options are not negative)
C6_ShapeMismatchReported ==
    (/\ cli.pc = "exit"
     /\ ~SameShape(bands)
     /\ cli.min_filter_opt >= 0
     /\ cli.max_filter_opt >= 0) =>
        /\ cli.exit_code # 0
        /\ out.exc # ""
        /\ cli.written = Unset

\* C7: the core is handed a disabled stage exactly for the option value 0 and
\* otherwise a window (n, n) with n positive; a negative size never reaches it
C7_FilterOptionsValidated ==
    (cli.pc = "exit" /\ ncalls >= 1) =>
        /\ min_filter = None <=> cli.min_filter_opt = 0
        /\ max_filter = None <=> cli.max_filter_opt = 0
        /\ min_filter # None => min_filter[1] > 0 /\ min_filter[2] > 0
        /\ max_filter # None => max_filter[1] > 0 /\ max_filter[2] > 0

\* no pixel is clear-sky land: every pixel is a PCP or water
NoClearSkyLand == \A p \in Pix : out.pcps.v[p] \/ out.water.v[p]

\* C8: with an empty clear-sky-land subset cloudmask returns, both land
\* percentiles and the land threshold are NaN, the land branch is false at
\* every pixel and the cloud layer is true through the water branch only
C8_EmptyLandSubset ==
    (ncalls >= 1 /\ NoClearSkyLand) =>
        /\ out.exc = ""
        /\ IsNaN(Value(out.tlow))
        /\ IsNaN(Value(out.thigh))
        /\ IsNaN(Value(out.lthreshold))
        /\ \A p \in Pix :
            /\ ~LandBranch(p)
            /\ out.raw_pcloud.v[p] => WaterBranch(p)

\* a scene of water and potential cloud pixels alone, with a PCP on land
\* that the NaN threshold leaves unflagged
C8_Witness ==
    /\ Returned
    /\ NoClearSkyLand
    /\ \E p \in Pix : out.water.v[p]
    /\ \E p \in Pix : out.pcps.v[p] /\ ~out.water.v[p] /\ ~out.raw_pcloud.v[p]

AllThermalNaN == \A p \in Pix : IsNaN(bands.tirs1.v[p])

\* C9: with a thermal band that is NaN everywhere cloudmask returns and the
\* cloud layer of potential_cloud_layer is false at every pixel, the
\* potential cloud pixels included
C9_AllNaNThermal ==
    (ncalls >= 1 /\ AllThermalNaN) =>
        /\ out.exc = ""
        /\ \A p \in Pix : ~out.raw_pcloud.v[p]

\* an all-NaN thermal band with a pixel that is a PCP through cirrus, over
\* water, and is not flagged
C9_Witness ==
    /\ Returned
    /\ AllThermalNaN
    /\ \E p \in Pix : /\ out.pcps.v[p]
                      /\ out.water.v[p]
                      /\ Gt(bands.cirrus.v[p], C(1))
                      /\ ~out.raw_pcloud.v[p]

\* C10: a second call on the same arrays with the same filter arguments
\* returns the same pcloud and pshadow as the first, and no call changes any
\* of the caller's arrays
C10_Idempotent ==
    /\ [](ncalls >= 2 =>
            /\ out.exc = prev.exc
            /\ out.pcloud = prev.pcloud
            /\ out.pshadow = prev.pshadow)
    /\ [][bands' = bands]_vars

\* a second call has returned a cloud and a shadow, on a scene where
\* temp_water, temp_land and land_threshold each masked a pixel
C10_Witness ==
    /\ ncalls >= 2
    /\ out.exc = ""
    /\ \E p \in Pix : out.pcloud.v[p]
    /\ \E p \in Pix : out.pshadow.v[p]
    /\ \E p \in Pix : ~out.water.v[p]
    /\ \E p \in Pix : out.pcps.v[p] \/ out.water.v[p]

\* every band of the scene is uniform with the values of clear land
UniformLand ==
    \A b \in BandNames : \A p \in Idx(bands[b].shape) :
        bands[b].v[p] = Palette.land[b]

\* C11: on a scene of any size that is uniform with blue = green = red = 0.2,
\* nir = 0.3, swir1 = 0.15, swir2 = 0.01, cirrus = 0 and tirs1 = 30,
\* basic_test, cirrus_test and pcp are false everywhere, the cold override
\* does not fire, cloudmask with the default filters returns all-false pcloud
\* and pshadow, and gdal_nodata_mask returns 255 at every pixel
C11_UniformClear ==
    (/\ ncalls >= 1
     /\ UniformLand
     /\ min_filter = DefaultMinFilter
     /\ max_filter = DefaultMaxFilter) =>
        /\ out.exc = ""
        /\ \A basic \in {basic_test(calc_ndvi(bands.red, bands.nir),
                                     calc_ndsi(bands.green, bands.swir1),
                                     bands.swir2, bands.tirs1)} :
           \A cir \in {cirrus_test(bands.cirrus)} :
           \A p \in Pix :
               /\ ~basic.v[p]
               /\ ~cir.v[p]
               /\ ~out.pcps.v[p]
               /\ ~ColdOverride(p)
               /\ ~out.pcloud.v[p]
               /\ ~out.pshadow.v[p]
               /\ enc # NoEnc => enc.gmask.v[p] = 255

\* a uniform scene of several rows and columns has been masked with the
\* default filters and encoded
C11_Witness ==
    /\ ncalls >= 1
    /\ UniformLand
    /\ min_filter = DefaultMinFilter
    /\ max_filter = DefaultMaxFilter
    /\ bands.red.shape[1] > 1
    /\ bands.red.shape[2] > 1
    /\ enc # NoEnc
    /\ enc.pcl = out.pcloud
    /\ enc.pcsl = out.pshadow
    /\ \A p \in Pix : enc.gmask.v[p] = 255

\* C12: at every pixel where ndvi, ndsi or whiteness is NaN the result of
\* variability_prob is NaN, so is the land cloud probability, and the land
\* branch of the cloud decision is false there
C12_NaNPropagates ==
    Returned =>
        \A p \in Pix :
            (IsNaN(out.ndvi.v[p]) \/ IsNaN(out.ndsi.v[p])
                \/ IsNaN(out.whiteness.v[p])) =>
                /\ IsNaN(out.vp.v[p])
                /\ IsNaN(out.land_cloud_prob.v[p])
                /\ ~LandBranch(p)

\* C13: with min_filter enabled and max_filter disabled every true pixel of
\* the returned pshadow was true in the raw shadow layer and lies at a
\* distance below 100 from some true pixel of the returned (eroded) pcloud;
\* so the returned pshadow is all false when the eroded pcloud has no true
\* pixel
C13_GateFromErodedClouds ==
    (Returned /\ min_filter # None /\ max_filter = None) =>
        \A p \in Pix :
            out.pshadow.v[p] =>
                /\ out.raw_pshadow.v[p]
                /\ \E q \in Pix : /\ out.pcloud.v[q]
                                  /\ DistSq(p, q) < pixel_radius * pixel_radius

====
